---- MODULE Spec2Model ----
(***************************************************************************)
(* Graph execution runner of backend/api/runner.py: run_graph (frontier    *)
(* scheduling with joins and the priority router), start_async_run,        *)
(* cancel_run and _maybe_start_queued_runs (admission and promotion of     *)
(* runs through the run table of backend/api/db.py).                       *)
(*                                                                         *)
(* asyncio runs one task at a time: a task runs without interruption from  *)
(* one await to the next.  Every action below is one such uninterrupted    *)
(* stretch of code, or one synchronous handler.                            *)
(***************************************************************************)
EXTENDS Integers, Sequences, FiniteSets, TLC

VARIABLES
    EXEC_RUNS,            \* runner.EXEC_RUNS: run id -> [status, logs, result, state]
    RUN_TASKS,            \* runner.RUN_TASKS: the run ids that have a task registered
    db_runs,              \* rows of the RunModel table: run id -> [status, result, logs]
    db_order,             \* run ids of the table ordered by created_at
    frames,               \* the run_graph coroutines: run id -> locals and position
    USE_DB,               \* storage.USE_DB and storage._db is not None
    max_concurrent_runs,  \* SETTINGS.MAX_CONCURRENT_RUNS
    store,                \* "up", "down" (every call of storage._db raises) or "restored"
    graph_config,         \* what storage.load_graph_config() returns
    next_id               \* the next fresh run id (uuid4 never repeats an id)

vars == <<EXEC_RUNS, RUN_TASKS, db_runs, db_order, frames, USE_DB,
          max_concurrent_runs, store, graph_config, next_id>>

config_vars == <<USE_DB, max_concurrent_runs, store, graph_config>>

(***************************************************************************)
(* Bounds of the exploration.                                              *)
(***************************************************************************)
NumRuns == 3          \* run ids submitted to the dispatcher
MaxCap == 2           \* max_concurrent_runs ranges over 1..MaxCap
SyncRuns == 1         \* synchronous executions, one after the other
EnvRuns == 2          \* run ids submitted while the store or the limit changes

\* config.py line 39: the default of MAX_CONCURRENT_RUNS (and of the getattr of line 314)
DefaultMaxConcurrentRuns == 4

RunIds == 1..NumRuns

(***************************************************************************)
(* Python dicts are functions; d.get(k, default), d[k] = v, d.update(o).   *)
(***************************************************************************)
EmptyDict == <<>>

DictGet(d, k, default) == IF k \in DOMAIN d THEN d[k] ELSE default

DictSet(d, k, v) == [x \in DOMAIN d \cup {k} |-> IF x = k THEN v ELSE d[x]]

DictUpdate(d, o) == [x \in DOMAIN d \cup DOMAIN o |-> IF x \in DOMAIN o THEN o[x] ELSE d[x]]

Range(s) == {s[i] : i \in DOMAIN s}

Max0(n) == IF n > 0 THEN n ELSE 0

(***************************************************************************)
(* Graph configurations.  A configuration is [nodes, edges]; a node is     *)
(* [id, callable] (callable "" when the spec declares none), an edge is    *)
(* [from, to].  Edges without "from" or "to" are skipped by run_graph and  *)
(* are left out.                                                           *)
(***************************************************************************)
START == "START"

Node(id) == [id |-> id, callable |-> ""]

Edge(f, t) == [from |-> f, to |-> t]

\* the fan-out / join of the agent graph: two segmentors joined by priority_node
JoinConfig ==
    [nodes |-> <<Node("rfm_segmentor_node"), Node("intent_segmentor_node"),
                 Node("experimentation_node")>>,
     edges |-> <<Edge(START, "rfm_segmentor_node"), Edge(START, "intent_segmentor_node"),
                 Edge("rfm_segmentor_node", "experimentation_node"),
                 Edge("intent_segmentor_node", "experimentation_node")>>]

\* the conditional routing of the agent graph: priority_node -> retrieval | generation
RouterConfig ==
    [nodes |-> <<Node("priority_node"), Node("retrieval_node"), Node("generation_node")>>,
     edges |-> <<Edge(START, "priority_node"),
                 Edge("priority_node", "retrieval_node"),
                 Edge("priority_node", "generation_node")>>]

\* a join node that is also a START target
JoinStartConfig ==
    [nodes |-> <<Node("rfm_segmentor_node"), Node("experimentation_node")>>,
     edges |-> <<Edge(START, "rfm_segmentor_node"), Edge(START, "experimentation_node"),
                 Edge("rfm_segmentor_node", "experimentation_node")>>]

\* the same START edge listed twice
DupStartConfig ==
    [nodes |-> <<Node("rfm_segmentor_node"), Node("experimentation_node")>>,
     edges |-> <<Edge(START, "rfm_segmentor_node"), Edge(START, "rfm_segmentor_node"),
                 Edge("rfm_segmentor_node", "experimentation_node")>>]

\* the same edge between two nodes listed twice
DupEdgeConfig ==
    [nodes |-> <<Node("rfm_segmentor_node"), Node("experimentation_node")>>,
     edges |-> <<Edge(START, "rfm_segmentor_node"),
                 Edge("rfm_segmentor_node", "experimentation_node"),
                 Edge("rfm_segmentor_node", "experimentation_node")>>]

\* a node reached along two satisfied paths of different length
DiamondConfig ==
    [nodes |-> <<Node("rfm_segmentor_node"), Node("intent_segmentor_node"),
                 Node("experimentation_node")>>,
     edges |-> <<Edge(START, "rfm_segmentor_node"),
                 Edge("rfm_segmentor_node", "intent_segmentor_node"),
                 Edge("rfm_segmentor_node", "experimentation_node"),
                 Edge("intent_segmentor_node", "experimentation_node")>>]

\* one node; the graph the dispatcher runs are given
SingleConfig ==
    [nodes |-> <<Node("rfm_segmentor_node")>>,
     edges |-> <<Edge(START, "rfm_segmentor_node")>>]

\* a cycle entered from START
CycleConfig ==
    [nodes |-> <<Node("retrieval_node"), Node("generation_node")>>,
     edges |-> <<Edge(START, "retrieval_node"),
                 Edge("retrieval_node", "generation_node"),
                 Edge("generation_node", "retrieval_node")>>]

\* a cycle without an edge from START
CycleNoStartConfig ==
    [nodes |-> <<Node("retrieval_node"), Node("generation_node")>>,
     edges |-> <<Edge("retrieval_node", "generation_node"),
                 Edge("generation_node", "retrieval_node")>>]

\* a cycle entered from START, and a declared node that no edge reaches
CycleExtraConfig ==
    [nodes |-> <<Node("retrieval_node"), Node("generation_node"), Node("deployment_node")>>,
     edges |-> <<Edge(START, "retrieval_node"),
                 Edge("retrieval_node", "generation_node"),
                 Edge("generation_node", "retrieval_node")>>]

\* phases 3 and 4 of the agent graph (graph.py 74-84): the router priority_node,
\* and generation_node reached from the router and from retrieval_node
MixedConfig ==
    [nodes |-> <<Node("priority_node"), Node("retrieval_node"), Node("generation_node")>>,
     edges |-> <<Edge(START, "priority_node"),
                 Edge("priority_node", "retrieval_node"),
                 Edge("priority_node", "generation_node"),
                 Edge("retrieval_node", "generation_node")>>]

\* a join whose first predecessor lists its edge twice and completes a level
\* before the second predecessor
DupJoinConfig ==
    [nodes |-> <<Node("rfm_segmentor_node"), Node("intent_segmentor_node"),
                 Node("experimentation_node")>>,
     edges |-> <<Edge(START, "rfm_segmentor_node"),
                 Edge("rfm_segmentor_node", "intent_segmentor_node"),
                 Edge("rfm_segmentor_node", "experimentation_node"),
                 Edge("rfm_segmentor_node", "experimentation_node"),
                 Edge("intent_segmentor_node", "experimentation_node")>>]

\* a declared node whose dotted path cannot be imported, before a built-in node
UnresolvedConfig ==
    [nodes |-> <<[id |-> "custom_node", callable |-> "plugins.missing.handler"],
                 Node("rfm_segmentor_node")>>,
     edges |-> <<Edge(START, "custom_node"),
                 Edge("custom_node", "rfm_segmentor_node")>>]

\* a declared node with an importable dotted path
PluginConfig ==
    [nodes |-> <<[id |-> "custom_node", callable |-> "plugins.custom.handler"]>>,
     edges |-> <<Edge(START, "custom_node")>>]

\* an edge to an id that is not declared among the nodes
UndeclaredConfig ==
    [nodes |-> <<Node("rfm_segmentor_node"), Node("experimentation_node")>>,
     edges |-> <<Edge(START, "ghost_node"), Edge(START, "rfm_segmentor_node"),
                 Edge("rfm_segmentor_node", "experimentation_node")>>]

GraphConfigs ==
    {JoinConfig, RouterConfig, JoinStartConfig, DupStartConfig, DupEdgeConfig, DiamondConfig,
     CycleConfig, CycleNoStartConfig, MixedConfig, DupJoinConfig,
     UnresolvedConfig, PluginConfig, UndeclaredConfig, CycleExtraConfig}

(***************************************************************************)
(* Lines 121-141 of run_graph: nodes_cfg, adj, preds, in_deg, frontier.    *)
(***************************************************************************)
NodesCfg(cfg) == {cfg.nodes[i].id : i \in DOMAIN cfg.nodes}

Adj(cfg, node_id) == SelectSeq(cfg.edges, LAMBDA e : e.from = node_id)

Preds(cfg, node_id) == {e.from : e \in {x \in Range(cfg.edges) : x.to = node_id /\ x.from # START}}

InitialInDeg(cfg) == [node_id \in NodesCfg(cfg) |-> Cardinality(Preds(cfg, node_id))]

RECURSIVE SeqOfTo(_)
SeqOfTo(es) == IF es = <<>> THEN <<>> ELSE <<Head(es).to>> \o SeqOfTo(Tail(es))

InitialFrontier(cfg) == SeqOfTo(Adj(cfg, START))

(***************************************************************************)
(* Lines 143-171: NODE_CALLABLES and ROUTERS.                              *)
(***************************************************************************)
BuiltinCallables ==
    {"rfm_segmentor_node", "intent_segmentor_node", "behavioral_segmentor_node",
     "profile_segmentor_node", "priority_node", "retrieval_node", "generation_node",
     "experimentation_node", "deployment_node"}

\* dotted paths that _resolve_callable_from_string can import
ImportablePaths == {"plugins.custom.handler"}

NODE_CALLABLES(cfg) ==
    BuiltinCallables \cup
    {cfg.nodes[i].id : i \in {j \in DOMAIN cfg.nodes : cfg.nodes[j].callable \in ImportablePaths}}

ROUTERS == {"priority_node"}

\* the segment labels whose lower-cased text contains "churn", "high-value" or "fraud"
CriticalSegments == {"churn-risk", "high-value", "fraud-alert"}

priority_router(state) ==
    LET final_segment == DictGet(state, "final_segment", "")
    IN  IF final_segment \in CriticalSegments THEN "retrieval_node" ELSE "generation_node"

(***************************************************************************)
(* What a node callable can do when called: return a dict, return None or  *)
(* raise.  _invoke_node turns the three into the dict `out`.               *)
(***************************************************************************)
Returns(d) == [kind |-> "dict", val |-> d]

ReturnsNone == [kind |-> "none", val |-> EmptyDict]

Raises == [kind |-> "raise", val |-> EmptyDict]

\* the body of the callable raises a TypeError
RaisesTypeError == [kind |-> "type_error", val |-> EmptyDict]

\* the segmentation nodes return a constant payload (rfm.py 44-52, intent.py 33-41);
\* the other nodes compute, call services and may raise
Segmentors ==
    {"rfm_segmentor_node", "intent_segmentor_node", "behavioral_segmentor_node",
     "profile_segmentor_node"}

\* the key a node writes its result under
OutputKey(node_id) ==
    CASE node_id \in Segmentors          -> "raw_segmentation_data"
      [] node_id = "retrieval_node"       -> "retrieved_content"
      [] node_id = "generation_node"      -> "message_variants"
      [] node_id = "experimentation_node" -> "winning_variant_id"
      [] node_id = "deployment_node"      -> "deployment_status"
      [] OTHER                            -> "output"

NodeResults(node_id) ==
    IF node_id = "priority_node"
    THEN {Returns(EmptyDict),
          Returns([final_segment |-> "churn-risk"]),
          Returns([final_segment |-> "general"]),
          Raises}
    ELSE IF node_id \in Segmentors
    THEN {Returns(DictSet(EmptyDict, OutputKey(node_id), node_id))}
    ELSE {Returns(DictSet(EmptyDict, OutputKey(node_id), node_id)), ReturnsNone, Raises,
          RaisesTypeError}

\* lines 73-83, _call_async and _call_sync: the callable is called with
\* (state, None); on a TypeError it is called again with (state).  first and
\* second are what the two calls do; the outcome is [res, calls].
_call_async(first, second) ==
    IF first.kind = "type_error" THEN [res |-> second, calls |-> 2]
    ELSE [res |-> first, calls |-> 1]

\* an exception of the callable swallowed without a trace
_invoke_node_Swallow(res) == IF res.kind = "dict" THEN res.val ELSE EmptyDict

_invoke_node(res) ==
    LET out == IF res.kind \in {"raise", "type_error"} THEN [error |-> "exc"] ELSE res.val
    IN  IF res.kind = "none" THEN EmptyDict ELSE out

(***************************************************************************)
(* Lines 219-249: the bookkeeping after a level.  acc is [in_deg,          *)
(* frontier, router_calls]; L is [frontier, processed, in_deg, logs,       *)
(* tasks, exited, router_calls, passes]; router_calls counts the           *)
(* evaluations of line 228, passes the passes of the loop of line 193 that *)
(* got beyond line 197.                                                    *)
(***************************************************************************)
Router(node_id, state) == priority_router(state)

\* the router consulted but every edge followed
RouterSkips_FollowAll(node_id, state, to) == node_id \in ROUTERS /\ Router(node_id, state) = START

\* lines 226-233: the edge of a router node is skipped unless the router names its target
RouterSkips(node_id, state, to) == node_id \in ROUTERS /\ Router(node_id, state) # to

\* lines 235-237 and 240-242: decrement, clamp at zero, enqueue at zero
Satisfy(acc, to) ==
    LET d == Max0(DictGet(acc.in_deg, to, 0) - 1)
    IN  [acc EXCEPT !.in_deg = DictSet(acc.in_deg, to, d),
                    !.frontier = IF d = 0 THEN Append(acc.frontier, to) ELSE acc.frontier]

RECURSIVE FollowEdges(_, _, _, _)
FollowEdges(es, node_id, state, acc) ==
    IF es = <<>> THEN acc
    ELSE LET called == IF node_id \in ROUTERS
                       THEN [acc EXCEPT !.router_calls = @ + 1] ELSE acc
         IN  FollowEdges(Tail(es), node_id, state,
                         IF RouterSkips(node_id, state, Head(es).to) THEN called
                         ELSE Satisfy(called, Head(es).to))

RECURSIVE MarkProcessed(_, _, _, _)
MarkProcessed(snapshot, cfg, state, L) ==
    IF snapshot = <<>> THEN L
    ELSE LET node_id == Head(snapshot)
             f == FollowEdges(Adj(cfg, node_id), node_id, state,
                              [in_deg |-> L.in_deg, frontier |-> L.frontier,
                               router_calls |-> L.router_calls])
         IN  MarkProcessed(Tail(snapshot), cfg, state,
                           [L EXCEPT !.processed = @ \cup {node_id},
                                     !.in_deg = f.in_deg,
                                     !.frontier = f.frontier,
                                     !.router_calls = f.router_calls])

\* a frontier that keeps the ids already processed
Prune_Nothing(frontier, processed) == frontier

\* line 195 and line 245
Prune(frontier, processed) == SelectSeq(frontier, LAMBDA n : n \notin processed)

\* lines 200-214: the log entries of the frontier nodes without a callable
RECURSIVE UnknownLogs(_, _)
UnknownLogs(frontier, cfg) ==
    IF frontier = <<>> THEN <<>>
    ELSE (IF Head(frontier) \in NODE_CALLABLES(cfg) THEN <<>>
          ELSE <<[node |-> Head(frontier), output |-> [error |-> "unknown node callable"]]>>)
         \o UnknownLogs(Tail(frontier), cfg)

\* line 214: one coroutine per frontier entry that has a callable
RECURSIVE NewTasks(_, _)
NewTasks(frontier, cfg) ==
    IF frontier = <<>> THEN <<>>
    ELSE (IF Head(frontier) \in NODE_CALLABLES(cfg)
          THEN <<[node |-> Head(frontier), phase |-> "created", out |-> EmptyDict,
                  raised |-> FALSE, calls |-> 0]>>
          ELSE <<>>)
         \o NewTasks(Tail(frontier), cfg)

\* line 248
LoopBreaks(processed, cfg) == Cardinality(processed) >= Cardinality(NodesCfg(cfg))

(***************************************************************************)
(* The scheduling loop from its head (line 193) to the next await: either  *)
(* the gather of line 217 (exited = FALSE, tasks to run) or the end of the *)
(* loop (exited = TRUE).  A level whose nodes all lack a callable has no   *)
(* await and falls through to the next pass.                               *)
(***************************************************************************)
RECURSIVE LoopHead(_, _, _)
RECURSIVE AfterLevel(_, _, _)
LoopHead(cfg, state, L) ==
    LET frontier == Prune(L.frontier, L.processed)
        unknown == {n \in Range(frontier) : n \notin NODE_CALLABLES(cfg)}
        L1 == [L EXCEPT !.frontier = frontier,
                        !.passes = @ + 1,
                        !.processed = @ \cup unknown,
                        !.logs = @ \o UnknownLogs(frontier, cfg),
                        !.tasks = NewTasks(frontier, cfg)]
    IN  IF frontier = <<>> THEN [L EXCEPT !.frontier = frontier, !.tasks = <<>>, !.exited = TRUE]
        ELSE IF L1.tasks # <<>> THEN [L1 EXCEPT !.exited = FALSE]
        ELSE AfterLevel(cfg, state, L1)

AfterLevel(cfg, state, L) ==
    LET L1 == MarkProcessed(L.frontier, cfg, state, L)
        L2 == [L1 EXCEPT !.frontier = Prune(L1.frontier, L1.processed), !.tasks = <<>>]
    IN  IF LoopBreaks(L2.processed, cfg) THEN [L2 EXCEPT !.exited = TRUE]
        ELSE LoopHead(cfg, state, L2)

(***************************************************************************)
(* backend/api/db.py: the run table.                                       *)
(***************************************************************************)
create_run(db, run_id, payload, status) ==
    DictSet(db, run_id, [status |-> status, payload |-> payload, result |-> <<>>, logs |-> <<>>])

update_run_status(db, run_id, status) ==
    IF run_id \in DOMAIN db THEN [db EXCEPT ![run_id].status = status] ELSE db

append_run_log(db, run_id, log_items) ==
    IF run_id \in DOMAIN db THEN [db EXCEPT ![run_id].logs = @ \o log_items] ELSE db

set_run_result(db, run_id, result) ==
    IF run_id \in DOMAIN db THEN [db EXCEPT ![run_id].result = <<result>>] ELSE db

count_active_runs(db) ==
    Cardinality({run_id \in DOMAIN db : db[run_id].status \in {"running", "cancelling"}})

\* the queued rows ordered newest first
get_queued_runs_NewestFirst(db, order, limit) ==
    LET queued == SelectSeq(order, LAMBDA run_id : db[run_id].status = "queued")
        newest == [i \in 1..Len(queued) |-> queued[Len(queued) + 1 - i]]
    IN  SubSeq(newest, 1, IF Len(queued) < limit THEN Len(queued) ELSE limit)

\* the queued rows ordered by created_at, cut to `limit`
get_queued_runs(db, order, limit) ==
    LET queued == SelectSeq(order, LAMBDA run_id : db[run_id].status = "queued")
    IN  SubSeq(queued, 1, IF Len(queued) < limit THEN Len(queued) ELSE limit)

(***************************************************************************)
(* runner.py: _init_run, and the coroutine object of a run_graph call.     *)
(* pc is the await the coroutine is suspended at:                          *)
(*   "pending"    created by asyncio.create_task, not started              *)
(*   "started"    line 108, broadcast of execution.started                 *)
(*   "gather"     line 217, asyncio.gather of the level's node coroutines  *)
(*   "finishing"  line 264, broadcast of execution.finished                *)
(*   "cancelled"  line 280, broadcast of execution.cancelled               *)
(*   "done"       returned or raised; the locals are gone                  *)
(* events is the sequence of the messages the coroutine and its node       *)
(* coroutines have handed to manager.broadcast, in the order of the calls. *)
(* A node coroutine of the level (_run_and_broadcast) is [node, phase,     *)
(* out, raised, calls] with phase "created", "started" (line 178),         *)
(* "invoked" (inside the callable, line 179), "returned" (line 182) or     *)
(* "done"; raised tells that the callable left with an exception, calls    *)
(* counts the calls of the callable.                                       *)
(***************************************************************************)
_init_run(initial_state) ==
    [status |-> "queued", logs |-> <<>>, result |-> <<>>, state |-> initial_state]

NewFrame(pc) ==
    [pc |-> pc, frontier |-> <<>>, processed |-> {}, in_deg |-> EmptyDict,
     tasks |-> <<>>, must_cancel |-> FALSE, router_calls |-> 0, passes |-> 0,
     events |-> <<>>]

\* a message handed to manager.broadcast by the coroutine; node is "" for
\* the events of the run itself
Event(type, node) == [type |-> type, node |-> node]

InitialStates == {EmptyDict}

Terminal == {"finished", "failed", "cancelled"}

(***************************************************************************)
(* _maybe_start_queued_runs (lines 372-404) on W = [exec, tasks, db,       *)
(* frames], the part of the state it reads and writes.                     *)
(***************************************************************************)
\* lines 388-402: one row of the queued list
StartQueuedRun(W, rid) ==
    LET db1 == update_run_status(W.db, rid, "running")
    IN  IF rid \notin W.tasks /\ rid \notin DOMAIN W.exec
        THEN [exec |-> DictSet(W.exec, rid, _init_run(W.db[rid].payload)),
              tasks |-> W.tasks \cup {rid},
              db |-> db1,
              frames |-> DictSet(W.frames, rid, NewFrame("pending"))]
        ELSE [W EXCEPT !.db = db1]

RECURSIVE StartQueuedRuns(_, _)
StartQueuedRuns(W, queued) ==
    IF queued = <<>> THEN W
    ELSE StartQueuedRuns(StartQueuedRun(W, Head(queued)), Tail(queued))

\* one slot too few
Capacity_OffByOne(db, max_conc) == max_conc - count_active_runs(db) - 1

\* lines 381-383
Capacity(db, max_conc) == max_conc - count_active_runs(db)

_maybe_start_queued_runs(W, order, use_db, max_conc) ==
    IF ~use_db THEN W
    ELSE IF Capacity(W.db, max_conc) <= 0 THEN W
    ELSE StartQueuedRuns(W, get_queued_runs(W.db, order, Capacity(W.db, max_conc)))

World == [exec |-> EXEC_RUNS, tasks |-> RUN_TASKS, db |-> db_runs, frames |-> frames]

SetWorld(W) ==
    /\ EXEC_RUNS' = W.exec
    /\ RUN_TASKS' = W.tasks
    /\ db_runs' = W.db
    /\ frames' = W.frames

(***************************************************************************)
(* The store calls of the runner sit in try/except blocks: a call that     *)
(* raises is skipped and the handler goes on.  An outage lasts for whole   *)
(* handler steps: within one step either every store call works or every   *)
(* one raises.  The store has at most one outage, of any length.           *)
(***************************************************************************)
StoreWorks == USE_DB /\ store # "down"

\* the getattr falling back to its default
SettingsMaxConcurrentRuns_Default == DefaultMaxConcurrentRuns

\* lines 314 and 381: getattr(SETTINGS, "max_concurrent_runs", 4), the property
\* of config.py lines 49-52 evaluated at the call
SettingsMaxConcurrentRuns == max_concurrent_runs

(***************************************************************************)
(* start_async_run (lines 306-335).                                        *)
(***************************************************************************)
\* the comparison of line 317 made strict
AtCapacity_Strict(db, max_conc) == count_active_runs(db) > max_conc

\* line 317
AtCapacity(db, max_conc) == count_active_runs(db) >= max_conc

start_async_run(initial_state, run_id) ==
    /\ run_id = next_id
    /\ run_id <= NumRuns
    /\ next_id' = next_id + 1
    /\ EXEC_RUNS' = DictSet(EXEC_RUNS, run_id, _init_run(initial_state))
    /\ IF StoreWorks /\ AtCapacity(db_runs, SettingsMaxConcurrentRuns)
       THEN /\ db_runs' = create_run(db_runs, run_id, initial_state, "queued")
            /\ db_order' = Append(db_order, run_id)
            /\ UNCHANGED <<RUN_TASKS, frames>>
       ELSE /\ db_runs' = IF StoreWorks THEN create_run(db_runs, run_id, initial_state, "running")
                          ELSE db_runs
            /\ db_order' = IF StoreWorks THEN Append(db_order, run_id) ELSE db_order
            /\ RUN_TASKS' = RUN_TASKS \cup {run_id}
            /\ frames' = DictSet(frames, run_id, NewFrame("pending"))
    /\ UNCHANGED config_vars

(***************************************************************************)
(* cancel_run (lines 338-369).  A call that returns False changes nothing  *)
(* and is no step.                                                         *)
(***************************************************************************)
cancel_run(run_id) ==
    /\ run_id \in DOMAIN EXEC_RUNS
    /\ IF run_id \notin RUN_TASKS
       THEN /\ EXEC_RUNS[run_id].status \notin Terminal
            /\ SetWorld(_maybe_start_queued_runs(
                   [World EXCEPT !.exec[run_id].status = "cancelled",
                                 !.db = IF StoreWorks THEN update_run_status(@, run_id, "cancelled")
                                        ELSE @],
                   db_order, StoreWorks, SettingsMaxConcurrentRuns))
       ELSE /\ frames[run_id].pc # "done"
            /\ frames' = [frames EXCEPT ![run_id].must_cancel = TRUE]
            /\ EXEC_RUNS' = [EXEC_RUNS EXCEPT ![run_id].status = "cancelling"]
            /\ db_runs' = IF StoreWorks THEN update_run_status(db_runs, run_id, "cancelling")
                          ELSE db_runs
            /\ UNCHANGED RUN_TASKS
    /\ UNCHANGED <<db_order, next_id, config_vars>>

(***************************************************************************)
(* run_graph (lines 98-303), one action per stretch between two awaits.    *)
(* A task whose cancellation was requested takes no ordinary step: its     *)
(* next step is the delivery of CancelledError (DeliverCancel).            *)
(***************************************************************************)
Runnable(run_id, pc) ==
    /\ run_id \in DOMAIN frames
    /\ frames[run_id].pc = pc
    /\ ~frames[run_id].must_cancel

\* a failure of the store calls of lines 259-260 reaching the handler of line 288
Finalize_StoreFatal(rec) ==
    IF USE_DB /\ store = "down"
    THEN [rec EXCEPT !.status = "failed", !.result = <<[error |-> "exc"]>>]
    ELSE [rec EXCEPT !.status = "finished", !.result = <<rec.state>>]

\* lines 254-262: the synchronous part of the finalization
Finalize(rec) == [rec EXCEPT !.status = "finished", !.result = <<rec.state>>]

PersistFinal(db, run_id, state) ==
    update_run_status(set_run_result(db, run_id, state), run_id, "finished")

\* the loop result R taken up to its await: the gather of line 217, or, when
\* the loop has ended, the broadcast of line 264
Proceed(run_id, R, db) ==
    LET new_logs == SubSeq(R.logs, Len(EXEC_RUNS[run_id].logs) + 1, Len(R.logs))
        rec == [EXEC_RUNS[run_id] EXCEPT !.logs = R.logs]
        db1 == IF StoreWorks THEN append_run_log(db, run_id, new_logs) ELSE db
        frame == [frames[run_id] EXCEPT !.frontier = R.frontier, !.processed = R.processed,
                                        !.in_deg = R.in_deg, !.tasks = R.tasks,
                                        !.router_calls = R.router_calls,
                                        !.passes = R.passes]
    IN  IF R.exited
        THEN /\ EXEC_RUNS' = [EXEC_RUNS EXCEPT ![run_id] = Finalize(rec)]
             /\ db_runs' = IF StoreWorks THEN PersistFinal(db1, run_id, rec.state) ELSE db1
             /\ frames' = [frames EXCEPT ![run_id] =
                               [frame EXCEPT !.pc = "finishing",
                                             !.events = Append(@, Event("execution.finished", ""))]]
        ELSE /\ EXEC_RUNS' = [EXEC_RUNS EXCEPT ![run_id] = rec]
             /\ db_runs' = db1
             /\ frames' = [frames EXCEPT ![run_id] = [frame EXCEPT !.pc = "gather"]]

\* lines 103-108, first step of the task created by asyncio.create_task
RunGraphBegin(run_id) ==
    /\ Runnable(run_id, "pending")
    /\ EXEC_RUNS' = [EXEC_RUNS EXCEPT ![run_id].status = "running"]
    /\ frames' = [frames EXCEPT ![run_id].pc = "started",
                                ![run_id].events = Append(@, Event("execution.started", ""))]
    /\ UNCHANGED <<RUN_TASKS, db_runs, db_order, next_id, config_vars>>

\* routers/graph.py lines 55-56: run_graph awaited by the request handler;
\* lines 103-108 run inside the handler and no task is registered
ExecuteGraph(initial_state, run_id) ==
    /\ run_id = next_id
    /\ run_id <= SyncRuns
    /\ \A r \in DOMAIN frames : frames[r].pc = "done"
    /\ next_id' = next_id + 1
    /\ EXEC_RUNS' = DictSet(EXEC_RUNS, run_id,
                            [_init_run(initial_state) EXCEPT !.status = "running"])
    /\ frames' = DictSet(frames, run_id,
                         [NewFrame("started") EXCEPT
                             !.events = <<Event("execution.started", "")>>])
    /\ UNCHANGED <<RUN_TASKS, db_runs, db_order, config_vars>>

\* lines 110-217 (or to line 264 when no node is to be run)
RunGraphSetup(run_id) ==
    /\ Runnable(run_id, "started")
    /\ LET cfg == graph_config
           L == [frontier |-> InitialFrontier(cfg), processed |-> {},
                 in_deg |-> InitialInDeg(cfg), logs |-> EXEC_RUNS[run_id].logs,
                 tasks |-> <<>>, exited |-> FALSE, router_calls |-> 0, passes |-> 0]
       IN  Proceed(run_id, LoopHead(cfg, EXEC_RUNS[run_id].state, L),
                   IF StoreWorks THEN update_run_status(db_runs, run_id, "running") ELSE db_runs)
    /\ UNCHANGED <<RUN_TASKS, db_order, next_id, config_vars>>

\* the node coroutines of the level that are suspended at `phase`
NodesAt(run_id, phase) ==
    IF Runnable(run_id, "gather")
    THEN {i \in DOMAIN frames[run_id].tasks : frames[run_id].tasks[i].phase = phase}
    ELSE {}

\* line 178: the node coroutine starts and broadcasts execution.node.started
NodeStarted(run_id, i) ==
    /\ i \in NodesAt(run_id, "created")
    /\ frames' = [frames EXCEPT ![run_id].tasks[i].phase = "started",
                                ![run_id].events =
                                    Append(@, Event("execution.node.started",
                                                    frames[run_id].tasks[i].node))]
    /\ UNCHANGED <<EXEC_RUNS, RUN_TASKS, db_runs, db_order, next_id, config_vars>>

\* line 179: the callable is called and suspends
NodeInvoked(run_id, i) ==
    /\ i \in NodesAt(run_id, "started")
    /\ frames' = [frames EXCEPT ![run_id].tasks[i].phase = "invoked"]
    /\ UNCHANGED <<EXEC_RUNS, RUN_TASKS, db_runs, db_order, next_id, config_vars>>

\* lines 179-182: the callable returns or raises, state.update(out), broadcast
NodeReturned(run_id, i) ==
    /\ i \in NodesAt(run_id, "invoked")
    /\ \E first \in NodeResults(frames[run_id].tasks[i].node),
          second \in NodeResults(frames[run_id].tasks[i].node) :
          LET c == _call_async(first, second)
              out == _invoke_node(c.res)
          IN  /\ EXEC_RUNS' = [EXEC_RUNS EXCEPT ![run_id].state = DictUpdate(@, out)]
              /\ frames' = [frames EXCEPT ![run_id].tasks[i].phase = "returned",
                                          ![run_id].tasks[i].out = out,
                                          ![run_id].tasks[i].raised =
                                              (c.res.kind \in {"raise", "type_error"}),
                                          ![run_id].tasks[i].calls = c.calls,
                                          ![run_id].events =
                                              Append(@, Event("execution.node.finished",
                                                              frames[run_id].tasks[i].node))]
    /\ UNCHANGED <<RUN_TASKS, db_runs, db_order, next_id, config_vars>>

\* lines 183-189: the log entry, in EXEC_RUNS and in the db row
NodeLogged(run_id, i) ==
    /\ i \in NodesAt(run_id, "returned")
    /\ LET t == frames[run_id].tasks[i]
           entry == [node |-> t.node, output |-> t.out]
       IN  /\ EXEC_RUNS' = [EXEC_RUNS EXCEPT ![run_id].logs = Append(@, entry)]
           /\ db_runs' = IF StoreWorks THEN append_run_log(db_runs, run_id, <<entry>>) ELSE db_runs
    /\ frames' = [frames EXCEPT ![run_id].tasks[i].phase = "done"]
    /\ UNCHANGED <<RUN_TASKS, db_order, next_id, config_vars>>

\* a gather that returns with the first coroutine that is done
GatherDone_Any(tasks) == \E i \in DOMAIN tasks : tasks[i].phase = "done"

\* line 217: asyncio.gather returns when every coroutine of the level is done
GatherDone(tasks) == \A i \in DOMAIN tasks : tasks[i].phase = "done"

\* lines 219-249 after the gather, then the loop again up to its next await
RunGraphAfterGather(run_id) ==
    /\ Runnable(run_id, "gather")
    /\ GatherDone(frames[run_id].tasks)
    /\ LET f == frames[run_id]
           L == [frontier |-> f.frontier, processed |-> f.processed, in_deg |-> f.in_deg,
                 logs |-> EXEC_RUNS[run_id].logs, tasks |-> f.tasks, exited |-> FALSE,
                 router_calls |-> f.router_calls, passes |-> f.passes]
       IN  Proceed(run_id, AfterLevel(graph_config, EXEC_RUNS[run_id].state, L), db_runs)
    /\ UNCHANGED <<RUN_TASKS, db_order, next_id, config_vars>>

\* lines 265-271: after the broadcast, the dispatcher, then return
RunGraphFinish(run_id) ==
    /\ Runnable(run_id, "finishing")
    /\ SetWorld(_maybe_start_queued_runs([World EXCEPT !.frames[run_id] = NewFrame("done")],
                                         db_order, StoreWorks, SettingsMaxConcurrentRuns))
    /\ UNCHANGED <<db_order, next_id, config_vars>>

\* CancelledError raised at the await the task is suspended at.  Only the
\* await of line 264 is inside the try of lines 252-287; there the handler
\* of lines 272-280 runs up to its own broadcast.  Anywhere else the
\* exception leaves run_graph and the task ends.
DeliverCancel(run_id) ==
    /\ run_id \in DOMAIN frames
    /\ frames[run_id].must_cancel
    /\ frames[run_id].pc # "done"
    /\ IF frames[run_id].pc = "finishing"
       THEN /\ EXEC_RUNS' = [EXEC_RUNS EXCEPT ![run_id].status = "cancelled"]
            /\ db_runs' = IF StoreWorks THEN update_run_status(db_runs, run_id, "cancelled")
                          ELSE db_runs
            /\ frames' = [frames EXCEPT ![run_id].pc = "cancelled",
                                        ![run_id].must_cancel = FALSE,
                                        ![run_id].events =
                                            Append(@, Event("execution.cancelled", ""))]
       ELSE /\ frames' = [frames EXCEPT ![run_id] = NewFrame("done")]
            /\ UNCHANGED <<EXEC_RUNS, db_runs>>
    /\ UNCHANGED <<RUN_TASKS, db_order, next_id, config_vars>>

\* lines 281-287: after the broadcast of execution.cancelled, the dispatcher, then raise
RunGraphCancelled(run_id) ==
    /\ Runnable(run_id, "cancelled")
    /\ SetWorld(_maybe_start_queued_runs([World EXCEPT !.frames[run_id] = NewFrame("done")],
                                         db_order, StoreWorks, SettingsMaxConcurrentRuns))
    /\ UNCHANGED <<db_order, next_id, config_vars>>

\* lines 330-334 and 400-402: the done callback of the task
_cleanup(run_id) ==
    /\ run_id \in RUN_TASKS
    /\ frames[run_id].pc = "done"
    /\ RUN_TASKS' = RUN_TASKS \ {run_id}
    /\ UNCHANGED <<EXEC_RUNS, db_runs, db_order, frames, next_id, config_vars>>

(***************************************************************************)
(* Specifications.  Spec: the dispatcher, NumRuns runs submitted with      *)
(* start_async_run over a one-node graph.  SpecGraph: one synchronous      *)
(* execution of each configuration of GraphConfigs, with the cancel        *)
(* endpoint called on its run id.  SpecStore: EnvRuns runs submitted while *)
(* the store has an outage.    SpecLimit: EnvRuns runs submitted while  *)
(* the concurrency limit is changed.                                       *)
(***************************************************************************)
InitCommon ==
    /\ EXEC_RUNS = EmptyDict
    /\ RUN_TASKS = {}
    /\ db_runs = EmptyDict
    /\ db_order = <<>>
    /\ frames = EmptyDict
    /\ next_id = 1
    /\ store = "up"

Init ==
    /\ InitCommon
    /\ USE_DB = TRUE
    /\ max_concurrent_runs \in 1..MaxCap
    /\ graph_config = SingleConfig

InitGraph ==
    /\ InitCommon
    /\ USE_DB \in BOOLEAN
    /\ max_concurrent_runs = DefaultMaxConcurrentRuns
    /\ graph_config \in GraphConfigs

TaskStep(run_id) ==
    \/ RunGraphSetup(run_id)
    \/ \E i \in NodesAt(run_id, "created") : NodeStarted(run_id, i)
    \/ \E i \in NodesAt(run_id, "started") : NodeInvoked(run_id, i)
    \/ \E i \in NodesAt(run_id, "invoked") : NodeReturned(run_id, i)
    \/ \E i \in NodesAt(run_id, "returned") : NodeLogged(run_id, i)
    \/ RunGraphAfterGather(run_id)
    \/ RunGraphFinish(run_id)

Next ==
    \/ \E run_id \in RunIds, initial_state \in InitialStates :
          start_async_run(initial_state, run_id)
    \/ \E run_id \in RunIds : cancel_run(run_id)
    \/ \E run_id \in RunIds : RunGraphBegin(run_id)
    \/ \E run_id \in RunIds : TaskStep(run_id)
    \/ \E run_id \in RunIds : DeliverCancel(run_id)
    \/ \E run_id \in RunIds : RunGraphCancelled(run_id)
    \/ \E run_id \in RunIds : _cleanup(run_id)

NextGraph ==
    \/ \E run_id \in 1..SyncRuns, initial_state \in InitialStates :
          ExecuteGraph(initial_state, run_id)
    \/ \E run_id \in 1..SyncRuns : TaskStep(run_id)
    \/ \E run_id \in 1..SyncRuns : cancel_run(run_id)

\* the store goes down: from now on its calls raise
StoreFails ==
    /\ USE_DB
    /\ store = "up"
    /\ store' = "down"
    /\ UNCHANGED <<EXEC_RUNS, RUN_TASKS, db_runs, db_order, frames, next_id,
                   USE_DB, max_concurrent_runs, graph_config>>

\* the store comes back with the rows it had
StoreRecovers ==
    /\ store = "down"
    /\ store' = "restored"
    /\ UNCHANGED <<EXEC_RUNS, RUN_TASKS, db_runs, db_order, frames, next_id,
                   USE_DB, max_concurrent_runs, graph_config>>

\* SETTINGS.MAX_CONCURRENT_RUNS is set to a new value while the service runs
Reconfigure(n) ==
    /\ n # max_concurrent_runs
    /\ max_concurrent_runs' = n
    /\ UNCHANGED <<EXEC_RUNS, RUN_TASKS, db_runs, db_order, frames, next_id,
                   USE_DB, store, graph_config>>

\* the run table is configured and one run is admitted at a time
InitStore ==
    /\ InitCommon
    /\ USE_DB = TRUE
    /\ max_concurrent_runs = 1
    /\ graph_config = SingleConfig

NextStore ==
    \/ \E run_id \in 1..EnvRuns, initial_state \in InitialStates :
          start_async_run(initial_state, run_id)
    \/ \E run_id \in 1..EnvRuns : cancel_run(run_id)
    \/ \E run_id \in 1..EnvRuns : RunGraphBegin(run_id)
    \/ \E run_id \in 1..EnvRuns : TaskStep(run_id)
    \/ \E run_id \in 1..EnvRuns : DeliverCancel(run_id)
    \/ \E run_id \in 1..EnvRuns : RunGraphCancelled(run_id)
    \/ \E run_id \in 1..EnvRuns : _cleanup(run_id)
    \/ StoreFails
    \/ StoreRecovers

InitLimit ==
    /\ InitCommon
    /\ USE_DB = TRUE
    /\ max_concurrent_runs = MaxCap
    /\ graph_config = SingleConfig

NextLimit ==
    \/ \E run_id \in 1..EnvRuns, initial_state \in InitialStates :
          start_async_run(initial_state, run_id)
    \/ \E run_id \in 1..EnvRuns : cancel_run(run_id)
    \/ \E run_id \in 1..EnvRuns : RunGraphBegin(run_id)
    \/ \E run_id \in 1..EnvRuns : TaskStep(run_id)
    \/ \E run_id \in 1..EnvRuns : DeliverCancel(run_id)
    \/ \E run_id \in 1..EnvRuns : RunGraphCancelled(run_id)
    \/ \E run_id \in 1..EnvRuns : _cleanup(run_id)
    \/ \E n \in 1..MaxCap : Reconfigure(n)

Spec == Init /\ [][Next]_vars

SpecStore == InitStore /\ [][NextStore]_vars

SpecLimit == InitLimit /\ [][NextLimit]_vars

SpecGraph == InitGraph /\ [][NextGraph]_vars

(***************************************************************************)
(* Observations on a run used by the properties.                           *)
(***************************************************************************)
Live(run_id) == run_id \in DOMAIN frames /\ frames[run_id].pc # "done"

\* the node coroutines of the current level of the run
LevelTasks(run_id) == IF run_id \in DOMAIN frames THEN frames[run_id].tasks ELSE <<>>

\* the callable of task t has been entered
Entered(t) == t.phase \in {"invoked", "returned", "done"}

\* the callable of task t has returned or raised
Left(t) == t.phase \in {"returned", "done"}

LogCount(run_id, node_id) ==
    Cardinality({i \in DOMAIN EXEC_RUNS[run_id].logs : EXEC_RUNS[run_id].logs[i].node = node_id})

\* calls of the callable of node_id so far: those logged, and those in flight
Invocations(run_id, node_id) ==
    LET ts == LevelTasks(run_id)
        logged == {i \in DOMAIN EXEC_RUNS[run_id].logs :
                      /\ EXEC_RUNS[run_id].logs[i].node = node_id
                      /\ node_id \in NODE_CALLABLES(graph_config)}
        flying == {i \in DOMAIN ts : ts[i].node = node_id /\ ts[i].phase \in {"invoked", "returned"}}
    IN  Cardinality(logged) + Cardinality(flying)

\* node_id has completed in the run: in an earlier level, or in the current one
Completed(run_id, node_id) ==
    \/ node_id \in frames[run_id].processed
    \/ \E i \in DOMAIN LevelTasks(run_id) :
          LevelTasks(run_id)[i].node = node_id /\ Left(LevelTasks(run_id)[i])

\* node_id has been given a coroutine or a log entry in the run
Scheduled(run_id, node_id) ==
    \/ \E i \in DOMAIN LevelTasks(run_id) : LevelTasks(run_id)[i].node = node_id
    \/ LogCount(run_id, node_id) > 0

PlainPreds(cfg, node_id) == Preds(cfg, node_id) \ ROUTERS

(***************************************************************************)
(* C1 - Join correctness: no call of the callable of a node J that has     *)
(* plain-edge predecessors starts before every distinct predecessor of J   *)
(* has completed, START target or not.                                     *)
(***************************************************************************)
C1_JoinCorrectness ==
    \A run_id \in DOMAIN frames :
        \A i \in DOMAIN frames[run_id].tasks :
            LET t == frames[run_id].tasks[i]
            IN  (Entered(t) /\ PlainPreds(graph_config, t.node) # {})
                    => \A p \in Preds(graph_config, t.node) : Completed(run_id, p)

(***************************************************************************)
(* C2 - Exclusive branching: for a router node R whose two targets X and Y *)
(* are reached only through R, once R has been processed exactly one of X  *)
(* and Y is scheduled, a finished run has executed exactly one of them,    *)
(* and the in-degree of the target that is not scheduled is untouched.     *)
(***************************************************************************)
Targets(cfg, node_id) == {e.to : e \in Range(Adj(cfg, node_id))}

\* the targets of R are reached by one edge each, from R only
ExclusiveBranch(cfg, R) ==
    /\ R \in ROUTERS \cap NodesCfg(cfg)
    /\ Cardinality(Targets(cfg, R)) = 2
    /\ Len(Adj(cfg, R)) = 2
    /\ \A to \in Targets(cfg, R) :
          /\ to \in NodesCfg(cfg)
          /\ Preds(cfg, to) = {R}
          /\ to \notin Range(InitialFrontier(cfg))

AllNodeIds(cfg) ==
    NodesCfg(cfg) \cup {e.to : e \in Range(cfg.edges)}

C3_IdempotentFrontier ==
    \A run_id \in DOMAIN EXEC_RUNS : \A node_id \in AllNodeIds(graph_config) :
        /\ Invocations(run_id, node_id) <= 1
        /\ LogCount(run_id, node_id) <= 1

(***************************************************************************)
(* Observations on the dispatcher.                                         *)
(***************************************************************************)
RowsWith(db, statuses) == {run_id \in DOMAIN db : db[run_id].status \in statuses}

\* every queued row, oldest first
QueuedRows == get_queued_runs(db_runs, db_order, Len(db_order))

\* the run table when there is one, else the registry
ActiveCount ==
    IF USE_DB THEN count_active_runs(db_runs)
    ELSE Cardinality({run_id \in DOMAIN EXEC_RUNS :
                         EXEC_RUNS[run_id].status \in {"running", "cancelling"}})

\* this step is a call of start_async_run
Submits == next_id' = next_id + 1

\* this step is the return of run_graph after the dispatcher call of line 268
Finishes(run_id) ==
    /\ run_id \in DOMAIN frames
    /\ frames[run_id].pc = "finishing"
    /\ frames'[run_id].pc = "done"

\* this step ends run_graph through one of its dispatcher calls (line 268 or 284)
Completes(run_id) ==
    /\ run_id \in DOMAIN frames
    /\ frames[run_id].pc \in {"finishing", "cancelled"}
    /\ ~frames[run_id].must_cancel
    /\ frames'[run_id].pc = "done"

\* this step ends the task of a run that was cancelled while it was running
EndsCancelled(run_id) ==
    /\ run_id \in DOMAIN frames
    /\ frames[run_id].pc \in {"started", "gather"}
    /\ frames[run_id].must_cancel
    /\ frames'[run_id].pc = "done"

\* the rows this step turns from queued to running
Promoted == {q \in DOMAIN db_runs : db_runs[q].status = "queued" /\ db_runs'[q].status = "running"}

\* max_concurrent_runs + 1 calls of start_async_run and nothing else so far
JustSubmitted ==
    /\ next_id = max_concurrent_runs + 2
    /\ \A run_id \in DOMAIN EXEC_RUNS : EXEC_RUNS[run_id].status = "queued"
    /\ \A run_id \in DOMAIN frames :
          frames[run_id].pc = "pending" /\ ~frames[run_id].must_cancel

Min(a, b) == IF a < b THEN a ELSE b

(***************************************************************************)
(* C4 - Global admission cap: the number of runs that are running or       *)
(* cancelling never exceeds max_concurrent_runs.                           *)
(***************************************************************************)
C4_AdmissionCap == ActiveCount <= max_concurrent_runs

(***************************************************************************)
(* C5 - Admission counts.  As claimed: max_concurrent_runs + 1 consecutive *)
(* submissions leave max_concurrent_runs runs running and one queued, and  *)
(* every completion of a run while runs are queued promotes exactly one    *)
(* queued run.                                                             *)
(***************************************************************************)
C5_SubmissionCounts ==
    JustSubmitted =>
        /\ Cardinality(RowsWith(db_runs, {"running"})) = max_concurrent_runs
        /\ Cardinality(RowsWith(db_runs, {"queued"})) = 1

C7_QueuedRunExecuted ==
    [][/\ (Submits /\ USE_DB /\ AtCapacity(db_runs, max_concurrent_runs))
            => EXEC_RUNS'[next_id].status = "queued"
       /\ \A q \in Promoted : q \in RUN_TASKS' /\ q \in DOMAIN frames']_vars

(***************************************************************************)
(* C8 - Cancellation frees capacity: when the task of a run cancelled      *)
(* while running ends, the slot it held has been handed on: no row is left *)
(* queued while fewer than max_concurrent_runs other runs are active.      *)
(***************************************************************************)
C8_CancelFreesCapacity ==
    [][\A run_id \in RunIds :
          EndsCancelled(run_id) =>
              \/ RowsWith(db_runs', {"queued"}) = {}
              \/ Cardinality(RowsWith(db_runs', {"running", "cancelling"}) \ {run_id})
                     >= max_concurrent_runs]_vars

(***************************************************************************)
(* C9 - Cancelling always resolves: a run is in status cancelling, in the  *)
(* registry or in the run table, only while its task is still there to     *)
(* turn it into cancelled.                                                 *)
(***************************************************************************)
C9_CancellingResolves ==
    \A run_id \in DOMAIN EXEC_RUNS :
        (\/ EXEC_RUNS[run_id].status = "cancelling"
         \/ (run_id \in DOMAIN db_runs /\ db_runs[run_id].status = "cancelling"))
            => Live(run_id)

(***************************************************************************)
(* C10 - Terminal statuses are final: once the status of a run is          *)
(* finished, failed or cancelled, its status, logs and result never        *)
(* change again.                                                           *)
(***************************************************************************)
C10_TerminalFinal ==
    [][\A run_id \in DOMAIN EXEC_RUNS :
          EXEC_RUNS[run_id].status \in Terminal =>
              /\ EXEC_RUNS'[run_id].status = EXEC_RUNS[run_id].status
              /\ EXEC_RUNS'[run_id].logs = EXEC_RUNS[run_id].logs
              /\ EXEC_RUNS'[run_id].result = EXEC_RUNS[run_id].result]_vars

(***************************************************************************)
(* C11 - cancel_run on a terminal run is a no-op: no call of cancel_run on *)
(* a run whose status is finished, failed or cancelled changes anything,   *)
(* also when the status is already finished and the task is not yet done.  *)
(* (A call that returns False is no step, so no step is such a call.)      *)
(***************************************************************************)
C11_TerminalCancelNoOp ==
    [][\A run_id \in RunIds :
          (run_id \in DOMAIN EXEC_RUNS /\ EXEC_RUNS[run_id].status \in Terminal)
              => ~cancel_run(run_id)]_vars

(***************************************************************************)
(* C12 - A node error does not abort the run: when a node callable raises, *)
(* the node gets a log entry that carries the error, it is still marked    *)
(* processed, every node that depends only on it is executed, and the run  *)
(* ends with status finished, never failed.                                *)
(***************************************************************************)
ErrorEntry(e) == "error" \in DOMAIN e.output /\ e.node \in NODE_CALLABLES(graph_config)

\* the nodes whose only predecessor is the plain node node_id
DependOnlyOn(cfg, node_id) ==
    {s \in NodesCfg(cfg) : Preds(cfg, s) = {node_id} /\ node_id \notin ROUTERS}

C12_NodeErrorIsolated ==
    \A run_id \in DOMAIN frames :
        /\ EXEC_RUNS[run_id].status # "failed"
        /\ \A i \in DOMAIN frames[run_id].tasks :
              LET t == frames[run_id].tasks[i]
              IN  /\ (t.raised /\ Left(t)) => "error" \in DOMAIN t.out
                  /\ (t.raised /\ t.phase = "done")
                        => \E k \in DOMAIN EXEC_RUNS[run_id].logs :
                              EXEC_RUNS[run_id].logs[k] = [node |-> t.node, output |-> t.out]
        /\ frames[run_id].pc = "finishing" =>
              /\ EXEC_RUNS[run_id].status = "finished"
              /\ \A k \in DOMAIN EXEC_RUNS[run_id].logs :
                    LET e == EXEC_RUNS[run_id].logs[k]
                    IN  ErrorEntry(e) =>
                            /\ e.node \in frames[run_id].processed
                            /\ \A s \in DependOnlyOn(graph_config, e.node) :
                                  LogCount(run_id, s) >= 1

\* a finished run in which retrieval_node raised and generation_node, which
\* depends only on it, was executed
C12_Witness ==
    \E run_id \in DOMAIN frames :
        /\ graph_config = CycleConfig
        /\ frames[run_id].pc = "finishing"
        /\ EXEC_RUNS[run_id].status = "finished"
        /\ \E k \in DOMAIN EXEC_RUNS[run_id].logs :
              /\ EXEC_RUNS[run_id].logs[k].node = "retrieval_node"
              /\ ErrorEntry(EXEC_RUNS[run_id].logs[k])
        /\ LogCount(run_id, "generation_node") = 1

(***************************************************************************)
(* C13 - Deadlock detection: for a graph configuration whose edges contain *)
(* a cycle, with or without a START edge into it, the run does not end     *)
(* with status finished (it ends failed, with a structural-failure         *)
(* indicator in its result).                                               *)
(***************************************************************************)
\* the nodes reached from node_id along at most n edges
RECURSIVE ReachedFrom(_, _, _)
ReachedFrom(cfg, node_id, n) ==
    IF n = 0 THEN {}
    ELSE LET direct == Targets(cfg, node_id)
         IN  direct \cup UNION {ReachedFrom(cfg, x, n - 1) : x \in direct}

HasCycle(cfg) ==
    \E node_id \in AllNodeIds(cfg) : node_id \in ReachedFrom(cfg, node_id, Len(cfg.edges))

C13_DeadlockDetected ==
    \A run_id \in DOMAIN EXEC_RUNS :
        HasCycle(graph_config) => EXEC_RUNS[run_id].status # "finished"

(***************************************************************************)
(* C14 - Joins mixed with conditional branches: for a router R with edges  *)
(* R->X and R->Y and a plain edge X->Y, the node Y is executed in every    *)
(* run: a run that has left the scheduling loop has a log entry of Y.      *)
(***************************************************************************)
\* the nodes Y that a router reaches directly and through its other target
MixedJoins(cfg) ==
    {Y \in NodesCfg(cfg) :
        \E R \in ROUTERS \cap NodesCfg(cfg) : \E X \in Targets(cfg, R) \ {Y} :
            /\ Y \in Targets(cfg, R)
            /\ Y \in Targets(cfg, X)
            /\ R \in Range(InitialFrontier(cfg))}

C14_MixedJoinReady ==
    \A run_id \in DOMAIN frames :
        frames[run_id].pc = "finishing" =>
            \A Y \in MixedJoins(graph_config) : LogCount(run_id, Y) >= 1

(***************************************************************************)
(* C15 - Every terminal transition re-triggers the dispatcher: when the    *)
(* task of a run that has made a transition to finished or cancelled ends, *)
(* it ends through a call of _maybe_start_queued_runs made after the       *)
(* terminal status was persisted (line 268 or line 284).                   *)
(***************************************************************************)
\* this step ends the task of a run after its transition to a terminal status
EndsAfterTerminal(run_id) ==
    /\ run_id \in DOMAIN frames
    /\ frames[run_id].pc \in {"finishing", "cancelled"}
    /\ frames'[run_id].pc = "done"

C15_TerminalRetriggers ==
    [][\A run_id \in RunIds :
          EndsAfterTerminal(run_id) => (RunGraphFinish(run_id) \/ RunGraphCancelled(run_id))]_vars

(***************************************************************************)
(* C16 - Promotion is oldest-first: a call of _maybe_start_queued_runs     *)
(* promotes min(max_concurrent_runs - active rows, queued rows) rows, and  *)
(* no row is promoted while a row of a run submitted earlier stays queued; *)
(* no other step promotes a row.  (Run ids are given in submission order.) *)
(***************************************************************************)
\* this step is the call of cancel_run on a run without a task (lines 341-357)
TasklessCancel(run_id) ==
    /\ run_id \in DOMAIN EXEC_RUNS
    /\ run_id \notin RUN_TASKS
    /\ EXEC_RUNS[run_id].status \notin Terminal
    /\ EXEC_RUNS'[run_id].status = "cancelled"

\* the run table as the dispatcher call of this step finds it
DispatchDb ==
    [run_id \in DOMAIN db_runs |->
        IF TasklessCancel(run_id) THEN [db_runs[run_id] EXCEPT !.status = "cancelled"]
        ELSE db_runs[run_id]]

C16_OldestFirst ==
    [][LET dispatched == \E run_id \in RunIds : Completes(run_id) \/ TasklessCancel(run_id)
           free == Max0(max_concurrent_runs
                            - Cardinality(RowsWith(DispatchDb, {"running", "cancelling"})))
           waiting == Cardinality(RowsWith(DispatchDb, {"queued"}))
       IN  /\ \A q \in Promoted : \A p \in DOMAIN db_runs :
                 p < q => db_runs'[p].status # "queued"
           /\ dispatched => Cardinality(Promoted) = Min(free, waiting)
           /\ ~dispatched => Promoted = {}]_vars

\* two runs were queued behind run 1; the older one has been promoted
C16_Witness ==
    /\ max_concurrent_runs = 1
    /\ DOMAIN db_runs = {1, 2, 3}
    /\ db_runs[1].status = "finished"
    /\ frames[1].pc = "done"
    /\ db_runs[2].status = "running"
    /\ 2 \notin DOMAIN frames
    /\ db_runs[3].status = "queued"

(***************************************************************************)
(* C17 - Level ordering of logs: in the logs of a run every entry of a     *)
(* node of an earlier frontier level precedes every entry of a node of the *)
(* current level; for START->A, START->B, A->J, B->J the entry of J comes  *)
(* after the entries of both A and B, in every interleaving of A and B,    *)
(* and the run ends finished.                                              *)
(***************************************************************************)
\* an entry of node_id exists before position i of the logs
LoggedBefore(logs, node_id, i) == \E j \in 1..(i - 1) : logs[j].node = node_id

C17_LevelOrdering ==
    \A run_id \in DOMAIN frames :
        LET logs == EXEC_RUNS[run_id].logs
            f == frames[run_id]
        IN  /\ f.pc = "gather" =>
                  \A i \in DOMAIN logs, j \in DOMAIN logs :
                      (/\ logs[i].node \in Range(f.frontier) \ f.processed
                       /\ logs[j].node \in f.processed) => j < i
            /\ graph_config = JoinConfig =>
                  /\ \A i \in DOMAIN logs :
                        logs[i].node = "experimentation_node" =>
                            /\ LoggedBefore(logs, "rfm_segmentor_node", i)
                            /\ LoggedBefore(logs, "intent_segmentor_node", i)
                  /\ f.pc = "finishing" =>
                        /\ EXEC_RUNS[run_id].status = "finished"
                        /\ LogCount(run_id, "experimentation_node") = 1

\* the join executed after its predecessors, which logged in the order B, A
C17_Witness ==
    \E run_id \in DOMAIN frames :
        /\ graph_config = JoinConfig
        /\ frames[run_id].pc = "finishing"
        /\ Len(EXEC_RUNS[run_id].logs) = 3
        /\ EXEC_RUNS[run_id].logs[1].node = "intent_segmentor_node"
        /\ EXEC_RUNS[run_id].logs[2].node = "rfm_segmentor_node"
        /\ EXEC_RUNS[run_id].logs[3].node = "experimentation_node"

(***************************************************************************)
(* C18 - Snapshot semantics within a level: while the callable of a node   *)
(* is running or suspended, the state it was given holds no output of a    *)
(* sibling of the same level; outputs are merged only after the level.     *)
(***************************************************************************)
\* the output of task s has been merged into the state
Merged(state, s) ==
    /\ Left(s)
    /\ \E k \in DOMAIN s.out : k \in DOMAIN state /\ state[k] = s.out[k]

C18_LevelSnapshot ==
    \A run_id \in DOMAIN frames :
        LET ts == frames[run_id].tasks
        IN  \A i \in DOMAIN ts, j \in DOMAIN ts :
                (ts[i].node # ts[j].node /\ ts[i].phase = "invoked")
                    => ~Merged(EXEC_RUNS[run_id].state, ts[j])

(***************************************************************************)
(* C19 - The router function of a router node is invoked exactly once per  *)
(* completion of that node, whatever the number of its outgoing edges: the *)
(* evaluations of the router so far are as many as the router nodes        *)
(* processed so far.                                                       *)
(***************************************************************************)
C19_RouterOncePerNode ==
    \A run_id \in DOMAIN frames :
        frames[run_id].pc \in {"gather", "finishing"} =>
            frames[run_id].router_calls = Cardinality(frames[run_id].processed \cap ROUTERS)

(***************************************************************************)
(* C20 - In-degree bookkeeping is per distinct predecessor: between two    *)
(* levels the in-degree of a node reached by plain edges only equals the   *)
(* number of its distinct non-START predecessors that have not completed,  *)
(* however often an edge is listed.                                        *)
(***************************************************************************)
C20_InDegPerPredecessor ==
    \A run_id \in DOMAIN frames :
        frames[run_id].pc \in {"gather", "finishing"} =>
            \A node_id \in NodesCfg(graph_config) :
                Preds(graph_config, node_id) \cap ROUTERS = {} =>
                    frames[run_id].in_deg[node_id] =
                        Cardinality(Preds(graph_config, node_id) \ frames[run_id].processed)

(***************************************************************************)
(* C21 - A run whose graph configuration declares a node whose callable    *)
(* cannot be resolved is rejected before execution begins: no node of the  *)
(* run is executed or logged and the run does not reach finished.          *)
(***************************************************************************)
\* the declared nodes without a callable: not built in, no importable path
Unresolved(cfg) == NodesCfg(cfg) \ NODE_CALLABLES(cfg)

C21_UnresolvedRejected ==
    \A run_id \in DOMAIN frames :
        Unresolved(graph_config) # {} =>
            /\ EXEC_RUNS[run_id].logs = <<>>
            /\ frames[run_id].tasks = <<>>
            /\ EXEC_RUNS[run_id].status # "finished"

(***************************************************************************)
(* C22 - cancel_run on a run without a task and with a non-terminal status *)
(* sets it to cancelled in the registry and in the store; such a run       *)
(* executes no node afterwards, keeps its status, logs and result, and is  *)
(* never promoted to running.                                              *)
(***************************************************************************)
\* the run is cancelled and no task is registered for it
CancelledTaskless(run_id) ==
    /\ run_id \in DOMAIN EXEC_RUNS
    /\ run_id \notin RUN_TASKS
    /\ EXEC_RUNS[run_id].status = "cancelled"

ReturnedOutputs(run_id) ==
    {EXEC_RUNS[run_id].logs[k].output :
        k \in {x \in DOMAIN EXEC_RUNS[run_id].logs : ~ErrorEntry(EXEC_RUNS[run_id].logs[x])}}
    \cup {frames[run_id].tasks[i].out :
            i \in {x \in DOMAIN frames[run_id].tasks :
                      Left(frames[run_id].tasks[x]) /\ ~frames[run_id].tasks[x].raised}}

C24_ErrorLeavesState ==
    \A run_id \in DOMAIN frames :
        Live(run_id) =>
            \A key \in DOMAIN EXEC_RUNS[run_id].state :
                \E out \in ReturnedOutputs(run_id) : key \in DOMAIN out

(***************************************************************************)
(* C25 - _invoke_node calls the node callable exactly once per scheduling  *)
(* of the node, whatever the call does: a callable that raises, a          *)
(* TypeError from its body included, is not called a second time.          *)
(***************************************************************************)
C25_CalledOnce ==
    \A run_id \in DOMAIN frames :
        \A i \in DOMAIN frames[run_id].tasks :
            LET t == frames[run_id].tasks[i]
            IN  /\ t.calls <= 1
                /\ Left(t) => t.calls = 1

(***************************************************************************)
(* C27 - The scheduling loop terminates for every finite configuration,    *)
(* cyclic ones included: every pass with a non-empty frontier adds at      *)
(* least one new id to processed, so the passes made are never more than   *)
(* the ids processed by them, nor than the distinct ids of the nodes and   *)
(* edges.                                                                  *)
(***************************************************************************)
C27_LoopTerminates ==
    \A run_id \in DOMAIN frames :
        LET f == frames[run_id]
            level == IF f.pc = "gather" THEN Range(f.frontier) ELSE {}
        IN  f.pc \in {"gather", "finishing"} =>
                /\ f.passes <= Cardinality(f.processed \cup level)
                /\ f.passes <= Cardinality(AllNodeIds(graph_config))

\* the loop left after two passes over a cycle that the break of line 248 does not end
C27_Witness ==
    \E run_id \in DOMAIN frames :
        /\ graph_config = CycleExtraConfig
        /\ frames[run_id].pc = "finishing"
        /\ frames[run_id].passes = 2
        /\ frames[run_id].processed = {"retrieval_node", "generation_node"}

(***************************************************************************)
(* C28 - run_graph never leaves the scheduling loop while a declared node  *)
(* with a resolvable callable is ready and unprocessed: when the run is    *)
(* finished, the frontier holds no such node, also when the edges mention  *)
(* ids that are not declared among the nodes.                              *)
(***************************************************************************)
\* the declared, resolvable nodes left in the frontier without having been processed
ReadyUnprocessed(run_id) ==
    {node_id \in Range(frames[run_id].frontier) :
        /\ node_id \in NodesCfg(graph_config)
        /\ node_id \in NODE_CALLABLES(graph_config)
        /\ node_id \notin frames[run_id].processed}

C28_NoReadyNodeLeft ==
    \A run_id \in DOMAIN frames :
        (frames[run_id].pc = "finishing" /\ EXEC_RUNS[run_id].status = "finished")
            => ReadyUnprocessed(run_id) = {}

(***************************************************************************)
(* C29 - No phantom active runs: every run whose persisted status is       *)
(* running or cancelling has a task registered in RUN_TASKS that has not   *)
(* ended.                                                                  *)
(***************************************************************************)
C29_NoPhantomActive ==
    \A run_id \in RowsWith(db_runs, {"running", "cancelling"}) :
        run_id \in RUN_TASKS /\ Live(run_id)

(***************************************************************************)
(* C30 - Event ordering within a run: execution.started is broadcast       *)
(* before any execution.node.started; for each executed node its           *)
(* execution.node.started precedes its execution.node.finished, which      *)
(* precedes its log entry; execution.finished is broadcast only after      *)
(* every started node has broadcast execution.node.finished and the status *)
(* of the run is finished.                                                 *)
(***************************************************************************)
\* the events of the given type and node among the first n events
CountEvents(events, type, node, n) ==
    Cardinality({i \in 1..n : events[i] = Event(type, node)})

C30_EventOrdering ==
    \A run_id \in DOMAIN frames :
        LET ev == frames[run_id].events
            Started(node, n) == CountEvents(ev, "execution.node.started", node, n)
            Finished(node, n) == CountEvents(ev, "execution.node.finished", node, n)
        IN  Live(run_id) =>
                /\ ev # <<>> /\ ev[1] = Event("execution.started", "")
                /\ \A i \in DOMAIN ev : i > 1 => ev[i].type # "execution.started"
                /\ \A i \in DOMAIN ev :
                      ev[i].type = "execution.node.finished"
                          => Finished(ev[i].node, i) <= Started(ev[i].node, i)
                /\ \A node_id \in NODE_CALLABLES(graph_config) :
                      LogCount(run_id, node_id) <= Finished(node_id, Len(ev))
                /\ \A i \in DOMAIN ev :
                      ev[i].type = "execution.finished" =>
                          /\ EXEC_RUNS[run_id].status = "finished"
                          /\ \A node_id \in AllNodeIds(graph_config) :
                                Started(node_id, i) = Finished(node_id, i)

\* the join configuration run to its end: eight events, execution.finished last
C30_Witness ==
    \E run_id \in DOMAIN frames :
        /\ graph_config = JoinConfig
        /\ frames[run_id].pc = "finishing"
        /\ Len(frames[run_id].events) = 8
        /\ frames[run_id].events[8] = Event("execution.finished", "")
        /\ frames[run_id].events[2] = Event("execution.node.started", "intent_segmentor_node")

(***************************************************************************)
(* C23 - Persistence failures are non-fatal: when the calls of the store   *)
(* raise, start_async_run, run_graph, cancel_run and the dispatcher go on; *)
(* no run is marked failed, a submission made during the outage gets its   *)
(* task, and a run that finishes has executed the node of the graph and    *)
(* holds status finished with its state as result, as with a working       *)
(* store.                                                                  *)
(***************************************************************************)
LogNodes(run_id) ==
    [i \in 1..Len(EXEC_RUNS[run_id].logs) |-> EXEC_RUNS[run_id].logs[i].node]

C23_StoreFailuresNonFatal ==
    /\ [](\A run_id \in DOMAIN EXEC_RUNS :
            /\ EXEC_RUNS[run_id].status # "failed"
            /\ (run_id \in DOMAIN frames /\ frames[run_id].pc = "finishing") =>
                  /\ EXEC_RUNS[run_id].status \in {"finished", "cancelling"}
                  /\ EXEC_RUNS[run_id].result = <<EXEC_RUNS[run_id].state>>
                  /\ LogNodes(run_id) = <<"rfm_segmentor_node">>
                  /\ \E initial_state \in InitialStates :
                        EXEC_RUNS[run_id].state =
                            DictUpdate(initial_state, EXEC_RUNS[run_id].logs[1].output)
            /\ EXEC_RUNS[run_id].status = "finished" =>
                  /\ EXEC_RUNS[run_id].result = <<EXEC_RUNS[run_id].state>>
                  /\ LogNodes(run_id) = <<"rfm_segmentor_node">>)
    /\ [][/\ (Submits /\ USE_DB /\ store = "down") =>
                /\ next_id \in RUN_TASKS'
                /\ frames'[next_id].pc = "pending"
                /\ db_runs' = db_runs
          /\ \A run_id \in RunIds :
                (cancel_run(run_id) /\ USE_DB /\ store = "down") =>
                    /\ EXEC_RUNS'[run_id].status \in {"cancelled", "cancelling"}
                    /\ db_runs' = db_runs
                    /\ RUN_TASKS' = RUN_TASKS
          /\ \A run_id \in RunIds :
                (Completes(run_id) /\ USE_DB /\ store = "down") =>
                    /\ db_runs' = db_runs
                    /\ EXEC_RUNS' = EXEC_RUNS]_vars

\* the store is down; a run whose row was written has finished in memory and
\* its row still says running, with no result and no log
C23_Witness ==
    /\ USE_DB
    /\ store = "down"
    /\ \E run_id \in DOMAIN db_runs :
          /\ EXEC_RUNS[run_id].status = "finished"
          /\ EXEC_RUNS[run_id].result = <<EXEC_RUNS[run_id].state>>
          /\ db_runs[run_id].status = "running"
          /\ db_runs[run_id].result = <<>>
          /\ db_runs[run_id].logs = <<>>

(***************************************************************************)
(* C26 - The limit is read afresh: every admission of start_async_run and  *)
(* every promotion of the dispatcher compares the active count with the    *)
(* value SETTINGS.MAX_CONCURRENT_RUNS has at that call, also right after   *)
(* the value was changed.                                                  *)
(***************************************************************************)
C26_LimitReadAfresh ==
    [][StoreWorks =>
          /\ Submits =>
                (db_runs'[next_id].status = "queued"
                    <=> count_active_runs(db_runs) >= max_concurrent_runs)
          /\ \A run_id \in RunIds :
                (Completes(run_id) \/ TasklessCancel(run_id)) =>
                    Cardinality(Promoted) =
                        Min(Max0(max_concurrent_runs
                                   - Cardinality(RowsWith(DispatchDb, {"running", "cancelling"}))),
                            Cardinality(RowsWith(DispatchDb, {"queued"})))]_vars

\* the limit was lowered from MaxCap to 1 after the first submission and the
\* second submission was queued behind the one active run
C26_Witness ==
    /\ USE_DB
    /\ max_concurrent_runs = 1
    /\ max_concurrent_runs < MaxCap
    /\ DOMAIN db_runs = {1, 2}
    /\ db_runs[1].status = "running"
    /\ db_runs[2].status = "queued"
    /\ EXEC_RUNS[2].status = "queued"
    /\ 2 \notin RUN_TASKS

====
